---- MODULE Spec2Model ----
(***************************************************************************)
(* Block production of the miner (src/src/miner/mod.rs): the resolution    *)
(* loops to_valid and call, the state applier transit, the block assembler *)
(* next and the production loop mine_loop, over a content-addressed trie   *)
(* database, the chain storage and the pending queue of miner::state.      *)
(*                                                                         *)
(* The virtual machine, the trie, the hash and the serialisation are       *)
(* libraries.  The trie is modelled by its contract (a root determines the *)
(* contents; writes add nodes to the database and never change the nodes   *)
(* of another root), Keccak and RLP as injective encodings, and the VM as  *)
(* an environment that pauses with requirements and finally reports        *)
(* effects, logs and gas.                                                  *)
(***************************************************************************)
EXTENDS Integers, Sequences, FiniteSets, TLC

(***************************************************************************)
(* Bounds of the model.                                                    *)
(***************************************************************************)
\* transactions the producers append in a run
MaxAppended == 2
\* production cycles in a run
MaxBlocks == 2
\* requirements the VM may raise beyond the accounts a transaction names
MaxExtra == 1
\* width of a balance word (256 in the build)
WordBits == 3
\* length of the lists handed to the block assembler when it is called alone
MaxNextLen == 2

(***************************************************************************)
(* Program constants, scaled to the word width.                            *)
(***************************************************************************)
\* U256::from_str("0x10000000000000000000000000000"), scaled
GenesisBalance == 4
\* Gas::from_str("0x10000000000000000000000"), scaled
BlockGasLimit == 8

Modulus == 2 ^ WordBits

\* the node's address (from its secret key), Address::default(), and another
Miner == "A"
DefaultAddress == "Z"
Address == {Miner, "B", DefaultAddress}
EmptyCode == <<>>
SomeCode == <<96>>

(***************************************************************************)
(* Hashing, serialisation and the trie database.                           *)
(***************************************************************************)
\* Keccak256::digest as a collision-free digest of its input
Keccak256(bytes) == <<bytes>>
\* H256::default(): the hash no input has
ZeroHash == <<>>
\* rlp::encode
Rlp(x) == <<"rlp", x>>

\* a trie's contents: a function from the keys present to their values
EmptyTrie == <<>>
\* Trie::root: the hash of the contents
TrieRoot(items) == Keccak256(items)
\* Trie::get -> Option
TrieGet(items, key) == IF key \in DOMAIN items THEN <<items[key]>> ELSE <<>>
\* Trie::insert on the contents
TrieInsert(items, key, value) ==
    [k \in DOMAIN items \cup {key} |-> IF k = key THEN value ELSE items[k]]
\* Trie::remove on the contents
TrieRemove(items, key) == [k \in DOMAIN items \ {key} |-> items[k]]

\* the node store after the nodes of a trie with these contents were written
DbWrite(store, items) == (TrieRoot(items) :> items) @@ store
\* MemoryDatabase::create_trie(root): the contents reachable from a root
DbOpen(store, root) == store[root]
\* a MemoryDatabase holding the empty trie only
EmptyDatabase ==
    [state |-> (TrieRoot(EmptyTrie) :> EmptyTrie),
     storage |-> (TrieRoot(EmptyTrie) :> EmptyTrie)]

(***************************************************************************)
(* Transactions, and the facts and requirements of the resolution protocol.*)
(***************************************************************************)
\* a signed transaction; from is the sender its signature recovers
Tx(from, to, value, nonce, data) ==
    [from |-> from, to |-> to, value |-> value, nonce |-> nonce, data |-> data]
\* the transactions the producers submit
TxSet ==
    {Tx(Miner, "B", 1, 0, "transfer"), Tx("B", Miner, 1, 0, "transfer"),
     Tx(Miner, "B", 0, 0, "contract"), Tx(Miner, "B", 0, 1, "contract")}

\* RequireError
RequireAccount(a) == [kind |-> "Account", address |-> a]
RequireAccountCode(a) == [kind |-> "AccountCode", address |-> a]
RequireAccountStorage(a, i) == [kind |-> "AccountStorage", address |-> a, index |-> i]
RequireBlockhash(n) == [kind |-> "Blockhash", number |-> n]
NoRequire == [kind |-> "None"]

\* AccountCommitment, and the block hash committed by commit_blockhash
CommitFull(n, a, b, c) ==
    [kind |-> "Full", nonce |-> n, address |-> a, balance |-> b, code |-> c]
CommitCode(a, c) == [kind |-> "Code", address |-> a, code |-> c]
CommitStorage(a, i, v) == [kind |-> "Storage", address |-> a, index |-> i, value |-> v]
CommitNonexist(a) == [kind |-> "Nonexist", address |-> a]
CommitBlockhash(n, h) == [kind |-> "Blockhash", number |-> n, hash |-> h]

\* state::get_hash_raw
GetHashRaw(raw, hash) == raw[hash]
\* state::insert_hash_raw
InsertHashRaw(raw, hash, bytes) == (hash :> bytes) @@ raw

\* state::append_block
StateAppendBlock(blocks, block) == Append(blocks, block)
\* state::current_block
StateCurrentBlock(blocks) == blocks[Len(blocks)]
\* state::get_block_by_number
GetBlockByNumber(blocks, number) == blocks[number + 1]

\* block.header.header_hash()
HeaderHash(header) == Keccak256(Rlp(header))

\* the answer with a storage requirement answered by zero without a read
Resolve_ZeroStorage(db, raw, items, req) ==
    LET account == TrieGet(items, req.address)
    IN  IF Len(account) = 0
        THEN CommitNonexist(req.address)
        ELSE CASE req.kind = "Account" ->
                    CommitFull(account[1].nonce, req.address, account[1].balance,
                               GetHashRaw(raw, account[1].code_hash))
               [] req.kind = "AccountCode" ->
                    CommitCode(req.address, GetHashRaw(raw, account[1].code_hash))
               [] req.kind = "AccountStorage" ->
                    CommitStorage(req.address, req.index, 0)

\* the answer of the execution loop (call) to an Account, AccountCode or
\* AccountStorage requirement, read from the ledger contents `items`
Resolve(db, raw, items, req) ==
    LET account == TrieGet(items, req.address)
    IN  IF Len(account) = 0
        THEN CommitNonexist(req.address)
        ELSE CASE req.kind = "Account" ->
                    CommitFull(account[1].nonce, req.address, account[1].balance,
                               GetHashRaw(raw, account[1].code_hash))
               [] req.kind = "AccountCode" ->
                    CommitCode(req.address, GetHashRaw(raw, account[1].code_hash))
               [] req.kind = "AccountStorage" ->
                    LET storage == DbOpen(db.storage, account[1].storage_root)
                        value == TrieGet(storage, req.index)
                    IN  CommitStorage(req.address, req.index,
                                      IF Len(value) = 0 THEN 0 ELSE value[1])

\* whether the facts committed so far answer a requirement
Answered(facts, req) ==
    \E c \in facts :
        CASE req.kind = "Account" ->
                 c.kind \in {"Full", "Nonexist"} /\ c.address = req.address
          [] req.kind = "AccountCode" ->
                 c.kind \in {"Full", "Code", "Nonexist"} /\ c.address = req.address
          [] req.kind = "AccountStorage" ->
                 \/ c.kind = "Nonexist" /\ c.address = req.address
                 \/ c.kind = "Storage" /\ c.address = req.address /\ c.index = req.index
          [] req.kind = "Blockhash" ->
                 c.kind = "Blockhash" /\ c.number = req.number

\* the committed fact about an account
AccountFact(facts, a) ==
    CHOOSE c \in facts : c.kind \in {"Full", "Nonexist"} /\ c.address = a

(***************************************************************************)
(* The virtual machine, as far as the miner sees it.                       *)
(***************************************************************************)
\* vm::Account, the effect declarations of vm.accounts()
EffFull(n, a, b, changing, c) ==
    [kind |-> "Full", nonce |-> n, address |-> a, balance |-> b,
     changing_storage |-> changing, code |-> c]
EffIncreaseBalance(a, v) == [kind |-> "IncreaseBalance", address |-> a, value |-> v]
EffDecreaseBalance(a, v) == [kind |-> "DecreaseBalance", address |-> a, value |-> v]
EffCreate(n, a, b, st, c, e) ==
    [kind |-> "Create", nonce |-> n, address |-> a, balance |-> b,
     storage |-> st, code |-> c, exists |-> e]

\* a finished execution: vm.accounts(), vm.logs(), vm.real_used_gas()
Outcome(accounts, logs, gas) ==
    [accounts |-> accounts, logs |-> logs, used_gas |-> gas]
Log(a, topics) == [address |-> a, topics |-> topics, data |-> <<>>]

\* the requirements a transaction may raise beyond its two accounts
ExtraRequire(tx) ==
    IF tx.data = "contract"
    THEN {RequireAccountCode(tx.to), RequireAccountStorage(tx.to, 1), RequireBlockhash(0)}
    ELSE {}

\* ValidTransaction::from_transaction: the results it may give with the
\* facts committed so far; `extra` counts the extra requirements raised
FromTransaction(tx, facts, extra) ==
    IF ~Answered(facts, RequireAccount(tx.from))
    THEN {[kind |-> "Require", require |-> RequireAccount(tx.from)]}
    ELSE LET sender == AccountFact(facts, tx.from)
             ok == /\ sender.kind = "Full"
                   /\ sender.nonce = tx.nonce
                   /\ sender.balance >= tx.value
         IN  {[kind |-> IF ok THEN "Valid" ELSE "Invalid"]}
             \cup {[kind |-> "Require", require |-> r] :
                     r \in {q \in ExtraRequire(tx) : extra < MaxExtra /\ ~Answered(facts, q)}}

\* the sender's part of the effects of a valid transaction
SenderEffects(tx, sender) ==
    {<<EffFull(sender.nonce + 1, tx.from, sender.balance - tx.value, <<>>, sender.code)>>}
    \cup IF tx.value > 0
         THEN {<<EffFull(sender.nonce + 1, tx.from, sender.balance, <<>>, sender.code),
                 EffDecreaseBalance(tx.from, tx.value)>>}
         ELSE {}

\* the receiver's part of the effects of a value transfer
ReceiverEffects(tx, receiver) ==
    IF receiver.kind = "Nonexist"
    THEN {<<EffCreate(0, tx.to, tx.value, <<>>, EmptyCode, TRUE)>>}
    ELSE {<<EffIncreaseBalance(tx.to, tx.value)>>}
         \cup IF receiver.balance + tx.value < Modulus
              THEN {<<EffFull(receiver.nonce, tx.to, receiver.balance + tx.value,
                              <<>>, receiver.code)>>}
              ELSE {}

\* what a contract call may declare for the called account
ContractEffects(tx, receiver) ==
    IF receiver.kind = "Nonexist"
    THEN {<<EffCreate(0, tx.to, 0, (1 :> 1), SomeCode, TRUE)>>,
          \* a fee credited to a beneficiary the ledger does not hold
          <<EffIncreaseBalance(DefaultAddress, 1)>>,
          \* a replacement of, and a debit to, the account the ledger does not hold
          <<EffFull(0, tx.to, 0, <<>>, EmptyCode)>>,
          <<EffDecreaseBalance(tx.to, 1)>>}
    ELSE {<<EffFull(receiver.nonce, tx.to, receiver.balance, (1 :> 1 @@ 2 :> 1), receiver.code)>>,
          <<EffFull(receiver.nonce, tx.to, receiver.balance, (1 :> 0), receiver.code)>>,
          <<EffCreate(0, tx.to, 0, <<>>, EmptyCode, FALSE)>>,
          <<EffCreate(0, tx.from, 0, <<>>, EmptyCode, FALSE)>>,
          \* code that is not the code committed for the account
          <<EffFull(receiver.nonce, tx.to, receiver.balance, (2 :> 1), SomeCode)>>,
          \* credits and debits beyond the word and the balance
          <<EffIncreaseBalance(tx.from, Modulus - 1)>>,
          <<EffDecreaseBalance(tx.to, Modulus - 1)>>}

\* the executions the VM may report once both accounts are committed
VMOutcomes(tx, facts) ==
    LET sender == AccountFact(facts, tx.from)
        receiver == AccountFact(facts, tx.to)
    IN  IF tx.data = "transfer"
        THEN {Outcome(s \o r, <<>>, 1) :
                s \in SenderEffects(tx, sender), r \in ReceiverEffects(tx, receiver)}
        ELSE {Outcome(s \o r, <<>>, 2) :
                s \in SenderEffects(tx, sender), r \in ContractEffects(tx, receiver)}
             \cup {Outcome(s, <<Log(tx.to, <<"t1", "t2">>), Log(tx.from, <<>>)>>, 3) :
                     s \in SenderEffects(tx, sender)}

\* vm.fire(): the results it may give with the facts committed so far
Fire(tx, facts, extra) ==
    IF ~Answered(facts, RequireAccount(tx.from))
    THEN {[kind |-> "Require", require |-> RequireAccount(tx.from)]}
    ELSE IF ~Answered(facts, RequireAccount(tx.to))
    THEN {[kind |-> "Require", require |-> RequireAccount(tx.to)]}
    ELSE {[kind |-> "Ok", outcome |-> o] : o \in VMOutcomes(tx, facts)}
         \cup {[kind |-> "Require", require |-> r] :
                 r \in {q \in ExtraRequire(tx) : extra < MaxExtra /\ ~Answered(facts, q)}}

(***************************************************************************)
(* transit: applying the effects, and the receipt.                         *)
(***************************************************************************)
\* Account of the block crate
Account(n, b, sr, ch) ==
    [nonce |-> n, balance |-> b, storage_root |-> sr, code_hash |-> ch]

\* the orders in which a HashMap with these keys may be iterated
RECURSIVE Orders(_)
Orders(keys) ==
    IF keys = {} THEN {<<>>}
    ELSE UNION {{<<k>> \o rest : rest \in Orders(keys \ {k})} : k \in keys}

\* the loop over the storage map left after its first iteration
InsertAll_FirstOnly(store, items, map, order) ==
    IF order = <<>> THEN [store |-> store, items |-> items]
    ELSE LET next == TrieInsert(items, Head(order), map[Head(order)])
         IN  [store |-> DbWrite(store, next), items |-> next]

\* for (key, value) in map { storage_trie.insert(key, value) } in the given
\* order: the node store and the contents afterwards
RECURSIVE InsertAll(_, _, _, _)
InsertAll(store, items, map, order) ==
    IF order = <<>> THEN [store |-> store, items |-> items]
    ELSE LET next == TrieInsert(items, Head(order), map[Head(order)])
         IN  InsertAll(DbWrite(store, next), next, map, Tail(order))

\* state.insert that writes the account under every key of the trie as well
StateInsert_Clobber(db, root, address, account) ==
    LET old == DbOpen(db.state, root)
        items == [k \in DOMAIN old \cup {address} |-> account]
    IN  [db |-> [db EXCEPT !.state = DbWrite(@, items)], root |-> TrieRoot(items)]

\* state.insert(address, account): the database and the new root
StateInsert(db, root, address, account) ==
    LET items == TrieInsert(DbOpen(db.state, root), address, account)
    IN  [db |-> [db EXCEPT !.state = DbWrite(@, items)], root |-> TrieRoot(items)]

\* state.remove that rewrites the nodes of the open root in place
StateRemove_InPlace(db, root, address) ==
    LET items == TrieRemove(DbOpen(db.state, root), address)
    IN  [db |-> [db EXCEPT !.state[root] = items], root |-> root]

\* state.remove(&address)
StateRemove(db, root, address) ==
    LET items == TrieRemove(DbOpen(db.state, root), address)
    IN  [db |-> [db EXCEPT !.state = DbWrite(@, items)], root |-> TrieRoot(items)]

\* U256 + U256 and U256 - U256 panic when the result leaves the word
AddOverflows(a, b) == a + b >= Modulus
SubUnderflows(a, b) == a < b

Applied(db, raw, root) == [fault |-> "none", db |-> db, raw |-> raw, root |-> root]
Panicked(fault, db, raw, root) == [fault |-> fault, db |-> db, raw |-> raw, root |-> root]

\* Full with the changed keys written into an empty storage trie
ApplyFull_FreshStorage(db, raw, root, eff, order) ==
    LET found == TrieGet(DbOpen(db.state, root), eff.address)
    IN  IF Len(found) = 0 THEN Panicked("missing_account", db, raw, root)
        ELSE LET account == found[1]
                 st == InsertAll(db.storage, EmptyTrie, eff.changing_storage, order)
                 written == [db EXCEPT !.storage = st.store]
                 changed == Account(eff.nonce, eff.balance, TrieRoot(st.items),
                                    account.code_hash)
                 ins == StateInsert(written, root, eff.address, changed)
             IN  IF account.code_hash # Keccak256(eff.code)
                 THEN Panicked("code_hash", written, raw, root)
                 ELSE Applied(ins.db, raw, ins.root)

\* vm::Account::Full
ApplyFull(db, raw, root, eff, order) ==
    LET found == TrieGet(DbOpen(db.state, root), eff.address)
    IN  IF Len(found) = 0 THEN Panicked("missing_account", db, raw, root)
        ELSE LET account == found[1]
                 st == InsertAll(db.storage, DbOpen(db.storage, account.storage_root),
                                 eff.changing_storage, order)
                 written == [db EXCEPT !.storage = st.store]
                 changed == Account(eff.nonce, eff.balance, TrieRoot(st.items),
                                    account.code_hash)
                 ins == StateInsert(written, root, eff.address, changed)
             IN  IF account.code_hash # Keccak256(eff.code)
                 THEN Panicked("code_hash", written, raw, root)
                 ELSE Applied(ins.db, raw, ins.root)

\* IncreaseBalance that opens an account for an address the ledger lacks
ApplyIncreaseBalance_Upsert(db, raw, root, eff) ==
    LET found == TrieGet(DbOpen(db.state, root), eff.address)
        account == IF Len(found) = 0
                   THEN Account(0, 0, TrieRoot(EmptyTrie), Keccak256(EmptyCode))
                   ELSE found[1]
    IN  IF AddOverflows(account.balance, eff.value)
        THEN Panicked("overflow", db, raw, root)
        ELSE LET ins == StateInsert(db, root, eff.address,
                            [account EXCEPT !.balance = @ + eff.value])
             IN  Applied(ins.db, raw, ins.root)

\* vm::Account::IncreaseBalance
ApplyIncreaseBalance(db, raw, root, eff) ==
    LET found == TrieGet(DbOpen(db.state, root), eff.address)
    IN  IF Len(found) = 0 THEN Panicked("missing_account", db, raw, root)
        ELSE IF AddOverflows(found[1].balance, eff.value)
        THEN Panicked("overflow", db, raw, root)
        ELSE LET ins == StateInsert(db, root, eff.address,
                            [found[1] EXCEPT !.balance = @ + eff.value])
             IN  Applied(ins.db, raw, ins.root)

\* DecreaseBalance without the state.insert of the changed account
ApplyDecreaseBalance_NoInsert(db, raw, root, eff) ==
    LET found == TrieGet(DbOpen(db.state, root), eff.address)
    IN  IF Len(found) = 0 THEN Panicked("missing_account", db, raw, root)
        ELSE IF SubUnderflows(found[1].balance, eff.value)
        THEN Panicked("underflow", db, raw, root)
        ELSE Applied(db, raw, root)

\* vm::Account::DecreaseBalance
ApplyDecreaseBalance(db, raw, root, eff) ==
    LET found == TrieGet(DbOpen(db.state, root), eff.address)
    IN  IF Len(found) = 0 THEN Panicked("missing_account", db, raw, root)
        ELSE IF SubUnderflows(found[1].balance, eff.value)
        THEN Panicked("underflow", db, raw, root)
        ELSE LET ins == StateInsert(db, root, eff.address,
                            [found[1] EXCEPT !.balance = @ - eff.value])
             IN  Applied(ins.db, raw, ins.root)

\* Create without the insert_hash_raw of the code
ApplyCreate_NoRaw(db, raw, root, eff, order) ==
    IF ~eff.exists
    THEN LET rem == StateRemove(db, root, eff.address)
         IN  Applied(rem.db, raw, rem.root)
    ELSE LET st == InsertAll(db.storage, EmptyTrie, eff.storage, order)
             written == [db EXCEPT !.storage = st.store]
             code_hash == Keccak256(eff.code)
             ins == StateInsert(written, root, eff.address,
                                Account(eff.nonce, eff.balance, TrieRoot(st.items), code_hash))
         IN  Applied(ins.db, raw, ins.root)

\* vm::Account::Create
ApplyCreate(db, raw, root, eff, order) ==
    IF ~eff.exists
    THEN LET rem == StateRemove(db, root, eff.address)
         IN  Applied(rem.db, raw, rem.root)
    ELSE LET st == InsertAll(db.storage, EmptyTrie, eff.storage, order)
             written == [db EXCEPT !.storage = st.store]
             code_hash == Keccak256(eff.code)
             ins == StateInsert(written, root, eff.address,
                                Account(eff.nonce, eff.balance, TrieRoot(st.items), code_hash))
         IN  Applied(ins.db, InsertHashRaw(raw, code_hash, eff.code), ins.root)

\* the keys of the storage map an effect carries
EffectKeys(eff) ==
    CASE eff.kind = "Full" -> DOMAIN eff.changing_storage
      [] eff.kind = "Create" -> DOMAIN eff.storage
      [] OTHER -> {}

\* one iteration of the loop over vm.accounts()
ApplyEffect(db, raw, root, eff, order) ==
    CASE eff.kind = "Full" -> ApplyFull(db, raw, root, eff, order)
      [] eff.kind = "IncreaseBalance" -> ApplyIncreaseBalance(db, raw, root, eff)
      [] eff.kind = "DecreaseBalance" -> ApplyDecreaseBalance(db, raw, root, eff)
      [] eff.kind = "Create" -> ApplyCreate(db, raw, root, eff, order)

\* LogsBloom: the set of the bits that are set; the bits of an input
BloomEmpty == {}
BloomBits(x) ==
    CASE x = Miner -> {0, 1}
      [] x = "B" -> {1, 2}
      [] x = DefaultAddress -> {3}
      [] x = "t1" -> {0, 3}
      [] x = "t2" -> {4}
BloomSet(bloom, x) == bloom \cup BloomBits(x)
BloomOr(a, b) == a \cup b

\* the topics left out of the filter
SetTopics_Skip(bloom, topics) == bloom

\* for topic in log.topics { logs_bloom.set(&topic) }
RECURSIVE SetTopics(_, _)
SetTopics(bloom, topics) ==
    IF topics = <<>> THEN bloom
    ELSE SetTopics(BloomSet(bloom, Head(topics)), Tail(topics))

\* for log in logs { logs_bloom.set(&log.address); ... }
RECURSIVE SetLogs(_, _)
SetLogs(bloom, logs) ==
    IF logs = <<>> THEN bloom
    ELSE SetLogs(SetTopics(BloomSet(bloom, Head(logs).address), Head(logs).topics),
                 Tail(logs))

\* the receipt transit returns
MakeReceipt(outcome, root) ==
    [used_gas |-> outcome.used_gas, logs |-> outcome.logs,
     logs_bloom |-> SetLogs(BloomEmpty, outcome.logs), state_root |-> root]

(***************************************************************************)
(* next: the block assembler.                                              *)
(***************************************************************************)
\* the loop of next from index i (0-based) on; acc holds the two tries, the
\* raw-bytes namespace, the filter and the gas so far
RECURSIVE AssembleFrom(_, _, _, _)
AssembleFrom(i, transactions, receipts, acc) ==
    IF i >= Len(transactions) THEN acc
    ELSE LET transaction_rlp == Rlp(transactions[i + 1])
             receipt_rlp == Rlp(receipts[i + 1])
         IN  AssembleFrom(i + 1, transactions, receipts,
                 [transactions_trie |-> TrieInsert(acc.transactions_trie, Rlp(i), transaction_rlp),
                  receipts_trie |-> TrieInsert(acc.receipts_trie, Rlp(i), receipt_rlp),
                  raw |-> InsertHashRaw(
                              InsertHashRaw(acc.raw, Keccak256(transaction_rlp), transaction_rlp),
                              Keccak256(receipt_rlp), receipt_rlp),
                  logs_bloom |-> BloomOr(acc.logs_bloom, receipts[i + 1].logs_bloom),
                  gas_used |-> acc.gas_used + receipts[i + 1].used_gas])

\* Header
Header(parent_hash, beneficiary, roots, logs_bloom, gas_limit, gas_used, timestamp, number) ==
    [parent_hash |-> parent_hash, ommers_hash |-> TrieRoot(EmptyTrie),
     beneficiary |-> beneficiary, state_root |-> roots.state,
     transactions_root |-> roots.transactions, receipts_root |-> roots.receipts,
     logs_bloom |-> logs_bloom, gas_limit |-> gas_limit, gas_used |-> gas_used,
     timestamp |-> timestamp, extra_data |-> 0, number |-> number,
     difficulty |-> 0, mix_hash |-> ZeroHash, nonce |-> 0]

\* Block
Block(header, transactions) ==
    [header |-> header, transactions |-> transactions, ommers |-> <<>>]

\* next with the parent's number taken over unchanged
NextBlock_SameNumber(parent, transactions, receipts, beneficiary, gas_limit, root, raw, timestamp) ==
    LET acc == AssembleFrom(0, transactions, receipts,
                   [transactions_trie |-> EmptyTrie, receipts_trie |-> EmptyTrie,
                    raw |-> raw, logs_bloom |-> BloomEmpty, gas_used |-> 0])
    IN  [block |-> Block(Header(HeaderHash(parent.header), beneficiary,
                                [state |-> root,
                                 transactions |-> TrieRoot(acc.transactions_trie),
                                 receipts |-> TrieRoot(acc.receipts_trie)],
                                acc.logs_bloom, gas_limit, acc.gas_used, timestamp,
                                parent.header.number),
                         transactions),
         raw |-> acc.raw]

\* next: the block and the raw-bytes namespace after it
NextBlock(parent, transactions, receipts, beneficiary, gas_limit, root, raw, timestamp) ==
    LET acc == AssembleFrom(0, transactions, receipts,
                   [transactions_trie |-> EmptyTrie, receipts_trie |-> EmptyTrie,
                    raw |-> raw, logs_bloom |-> BloomEmpty, gas_used |-> 0])
    IN  [block |-> Block(Header(HeaderHash(parent.header), beneficiary,
                                [state |-> root,
                                 transactions |-> TrieRoot(acc.transactions_trie),
                                 receipts |-> TrieRoot(acc.receipts_trie)],
                                acc.logs_bloom, gas_limit, acc.gas_used, timestamp,
                                parent.header.number + 1),
                         transactions),
         raw |-> acc.raw]

\* no block: what a local holds before its first assignment
NoBlock == <<>>

\* next as a build runs it.  debug_assert! (line 200) is compiled in only
\* with debug_assertions; receipts[i] (line 210) panics past the end of the
\* slice, after the iterations before it have run
NextCall(debug_assertions, parent, transactions, receipts, beneficiary, gas_limit, root, raw, timestamp) ==
    IF debug_assertions /\ Len(transactions) # Len(receipts)
    THEN [fault |-> "debug_assert", block |-> NoBlock, raw |-> raw]
    ELSE IF Len(receipts) < Len(transactions)
    THEN [fault |-> "index_out_of_bounds", block |-> NoBlock,
          raw |-> NextBlock(parent, SubSeq(transactions, 1, Len(receipts)), receipts,
                            beneficiary, gas_limit, root, raw, timestamp).raw]
    ELSE LET r == NextBlock(parent, transactions, receipts, beneficiary, gas_limit,
                            root, raw, timestamp)
         IN  [fault |-> "none", block |-> r.block, raw |-> r.raw]

\* the first block with the number one instead of zero
GenesisBlock_NumberOne(state_root, timestamp) ==
    Block(Header(ZeroHash, DefaultAddress,
                 [state |-> state_root, transactions |-> TrieRoot(EmptyTrie),
                  receipts |-> TrieRoot(EmptyTrie)],
                 BloomEmpty, 0, 0, timestamp, 1),
          <<>>)

\* the block mine_loop appends first
GenesisBlock(state_root, timestamp) ==
    Block(Header(ZeroHash, DefaultAddress,
                 [state |-> state_root, transactions |-> TrieRoot(EmptyTrie),
                  receipts |-> TrieRoot(EmptyTrie)],
                 BloomEmpty, 0, 0, timestamp, 0),
          <<>>)

(***************************************************************************)
(* The state.                                                              *)
(***************************************************************************)
VARIABLES
    chain,          \* miner::state: the blocks appended, by number
    pending,        \* miner::state: the pending transactions
    hashRaw,        \* miner::state: the raw-bytes namespace, hash -> bytes
    database,       \* miner::state: the trie database (node store)
    pc,             \* where mine_loop stands
    fault,          \* the panic that ended mine_loop, or "none"
    current_block,  \* mine_loop: the head read at the start of the cycle
    transactions,   \* mine_loop: the transactions drained for the cycle
    state,          \* mine_loop: the working ledger trie (its root)
    receipts,       \* mine_loop: the receipts of the cycle so far
    facts,          \* to_valid: account_state; call: the facts committed to vm
    require,        \* the requirement the operation paused with
    extra,          \* extra requirements raised by the running operation
    outcome,        \* transit: the finished vm
    effects,        \* transit: the effects of vm.accounts() not yet applied
    next_block,     \* mine_loop: the block next returned
    appended,       \* history: every transaction appended, in order
    drained,        \* history: what each drain returned, in order
    outcomes,       \* history: the finished executions of the cycle
    cycles,         \* history: per block appended, what its cycle did
    clock           \* the system time, in seconds since mine_loop started

vars == <<chain, pending, hashRaw, database, pc, fault, current_block, transactions,
          state, receipts, facts, require, extra, outcome, effects, next_block,
          appended, drained, outcomes, cycles, clock>>

shared == <<chain, pending, hashRaw, database>>
locals == <<current_block, transactions, state, receipts>>
vmvars == <<facts, require, extra, outcome, effects>>
history == <<appended, drained, outcomes, cycles>>

\* current_timestamp()
CurrentTimestamp == clock

NoOutcome == <<>>
\* Duration::from_millis(10000), in seconds
SleepSeconds == 10

\* the transaction the for loop of mine_loop is at
transaction == transactions[Len(receipts) + 1]

Init ==
    /\ chain = <<>>
    /\ pending = <<>>
    /\ hashRaw = <<>>
    /\ database = EmptyDatabase
    /\ pc = "genesis"
    /\ fault = "none"
    /\ current_block = NoBlock
    /\ transactions = <<>>
    /\ state = TrieRoot(EmptyTrie)
    /\ receipts = <<>>
    /\ facts = {}
    /\ require = NoRequire
    /\ extra = 0
    /\ outcome = NoOutcome
    /\ effects = <<>>
    /\ next_block = NoBlock
    /\ appended = <<>>
    /\ drained = <<>>
    /\ outcomes = <<>>
    /\ cycles = <<>>
    /\ clock = 0

(***************************************************************************)
(* The producers (miner::state::append_pending_transaction).               *)
(***************************************************************************)
AppendPendingTransaction ==
    /\ Len(appended) < MaxAppended
    /\ \E tx \in TxSet :
         /\ pending' = Append(pending, tx)
         /\ appended' = Append(appended, tx)
    /\ UNCHANGED <<chain, hashRaw, database, pc, fault, locals, vmvars, next_block,
                   drained, outcomes, cycles, clock>>

(***************************************************************************)
(* mine_loop.                                                              *)
(***************************************************************************)
\* the genesis ledger and block
Genesis ==
    /\ pc = "genesis"
    /\ LET code_hash == Keccak256(EmptyCode)
           ins == StateInsert(database, TrieRoot(EmptyTrie), Miner,
                              Account(0, GenesisBalance, TrieRoot(EmptyTrie), code_hash))
       IN  /\ hashRaw' = InsertHashRaw(hashRaw, code_hash, EmptyCode)
           /\ database' = ins.db
           /\ chain' = StateAppendBlock(chain, GenesisBlock(ins.root, CurrentTimestamp))
           /\ cycles' = Append(cycles, [parent |-> NoBlock, transactions |-> <<>>,
                                        receipts |-> <<>>, outcomes |-> <<>>])
    /\ pc' = "head"
    /\ UNCHANGED <<pending, fault, locals, vmvars, next_block, appended, drained, outcomes,
                   clock>>

\* state::current_block()
ReadHead ==
    /\ pc = "head"
    /\ Len(chain) <= MaxBlocks
    /\ current_block' = StateCurrentBlock(chain)
    /\ pc' = "drain"
    /\ UNCHANGED <<shared, fault, transactions, state, receipts, vmvars, next_block, history, clock>>

\* state::clear_pending_transactions(): what it returns, what it leaves queued
ClearPendingTransactions(queue) == [returned |-> queue, left |-> <<>>]

\* Drain with the queue read and not cleared
Drain_Peek ==
    /\ pc = "drain"
    /\ transactions' = pending
    /\ pending' = pending
    /\ drained' = Append(drained, transactions')
    /\ state' = current_block.header.state_root
    /\ receipts' = <<>>
    /\ outcomes' = <<>>
    /\ pc' = "for"
    /\ UNCHANGED <<chain, hashRaw, database, fault, current_block, vmvars, next_block,
                   appended, cycles, clock>>

\* let transactions = state::clear_pending_transactions(), and the snapshot
\* at the head's root
Drain ==
    /\ pc = "drain"
    /\ transactions' = ClearPendingTransactions(pending).returned
    /\ pending' = ClearPendingTransactions(pending).left
    /\ drained' = Append(drained, transactions')
    /\ state' = current_block.header.state_root
    /\ receipts' = <<>>
    /\ outcomes' = <<>>
    /\ pc' = "for"
    /\ UNCHANGED <<chain, hashRaw, database, fault, current_block, vmvars, next_block,
                   appended, cycles, clock>>

\* the for loop with the snapshot opened anew for each transaction
ForTransaction_Reopen ==
    /\ pc = "for"
    /\ Len(receipts) < Len(transactions)
    /\ facts' = {}
    /\ extra' = 0
    /\ state' = current_block.header.state_root
    /\ pc' = "to_valid"
    /\ UNCHANGED <<shared, fault, current_block, transactions, receipts, require, outcome,
                   effects, next_block, history, clock>>

\* for transaction in transactions.clone(): the next one, or the end
ForTransaction ==
    /\ pc = "for"
    /\ Len(receipts) < Len(transactions)
    /\ facts' = {}
    /\ extra' = 0
    /\ pc' = "to_valid"
    /\ UNCHANGED <<shared, fault, locals, require, outcome, effects, next_block, history, clock>>

\* the end of the for loop with block production gated on demand
ForDone_DemandGated ==
    /\ pc = "for"
    /\ Len(receipts) >= Len(transactions)
    /\ pc' = IF transactions = <<>> THEN "sleep" ELSE "next"
    /\ UNCHANGED <<shared, fault, locals, vmvars, next_block, history, clock>>

ForDone ==
    /\ pc = "for"
    /\ Len(receipts) >= Len(transactions)
    /\ pc' = "next"
    /\ UNCHANGED <<shared, fault, locals, vmvars, next_block, history, clock>>

\* a requirement raised by an operation
Raise(req) ==
    /\ require' = req
    /\ extra' = IF req \in ExtraRequire(transaction) THEN extra + 1 ELSE extra

\* to_valid: from_transaction returns the validated transaction
ToValidOk ==
    /\ pc = "to_valid"
    /\ \E r \in FromTransaction(transaction, facts, extra) : r.kind = "Valid"
    /\ facts' = {}
    /\ extra' = 0
    /\ pc' = "call"
    /\ UNCHANGED <<shared, fault, locals, require, outcome, effects, next_block, history, clock>>

\* to_valid: from_transaction returns an error, and val.unwrap() panics
ToValidInvalid ==
    /\ pc = "to_valid"
    /\ \E r \in FromTransaction(transaction, facts, extra) : r.kind = "Invalid"
    /\ pc' = "panic"
    /\ fault' = "invalid_transaction"
    /\ UNCHANGED <<shared, locals, vmvars, next_block, history, clock>>

\* to_valid: from_transaction pauses with a requirement
ToValidRequire ==
    /\ pc = "to_valid"
    /\ \E r \in FromTransaction(transaction, facts, extra) :
         /\ r.kind = "Require"
         /\ Raise(r.require)
    /\ pc' = "to_valid_commit"
    /\ UNCHANGED <<shared, fault, locals, facts, outcome, effects, next_block, history, clock>>

\* to_valid: the requirement is answered from the ledger
ToValidCommit ==
    /\ pc = "to_valid_commit"
    /\ require.kind # "Blockhash"
    /\ facts' = facts \cup {Resolve(database, hashRaw, DbOpen(database.state, state), require)}
    /\ require' = NoRequire
    /\ pc' = "to_valid"
    /\ UNCHANGED <<shared, fault, locals, extra, outcome, effects, next_block, history, clock>>

\* to_valid: RequireError::Blockhash => panic!()
ToValidBlockhash ==
    /\ pc = "to_valid_commit"
    /\ require.kind = "Blockhash"
    /\ pc' = "panic"
    /\ fault' = "blockhash_in_validation"
    /\ UNCHANGED <<shared, locals, vmvars, next_block, history, clock>>

\* call: vm.fire() returns Ok
CallOk ==
    /\ pc = "call"
    /\ \E r \in Fire(transaction, facts, extra) :
         /\ r.kind = "Ok"
         /\ outcome' = r.outcome
         /\ effects' = r.outcome.accounts
    /\ pc' = "transit"
    /\ UNCHANGED <<shared, fault, locals, facts, require, extra, next_block, history, clock>>

\* call: vm.fire() pauses with a requirement
CallRequire ==
    /\ pc = "call"
    /\ \E r \in Fire(transaction, facts, extra) :
         /\ r.kind = "Require"
         /\ Raise(r.require)
    /\ pc' = "call_commit"
    /\ UNCHANGED <<shared, fault, locals, facts, outcome, effects, next_block, history, clock>>

\* CallCommit that also commits, unasked, the account of the beneficiary
CallCommit_Twice ==
    /\ pc = "call_commit"
    /\ require.kind # "Blockhash"
    /\ facts' = facts \cup
         {Resolve(database, hashRaw, DbOpen(database.state, state), require),
          Resolve(database, hashRaw, DbOpen(database.state, state),
                  RequireAccount(DefaultAddress))}
    /\ require' = NoRequire
    /\ pc' = "call"
    /\ UNCHANGED <<shared, fault, locals, extra, outcome, effects, next_block, history, clock>>

\* call: the requirement is answered from the ledger
CallCommit ==
    /\ pc = "call_commit"
    /\ require.kind # "Blockhash"
    /\ facts' = facts \cup {Resolve(database, hashRaw, DbOpen(database.state, state), require)}
    /\ require' = NoRequire
    /\ pc' = "call"
    /\ UNCHANGED <<shared, fault, locals, extra, outcome, effects, next_block, history, clock>>

\* CallBlockhash that commits the hash of the head instead of the block asked for
CallBlockhash_Head ==
    /\ pc = "call_commit"
    /\ require.kind = "Blockhash"
    /\ facts' = facts \cup
                {CommitBlockhash(require.number, HeaderHash(StateCurrentBlock(chain).header))}
    /\ require' = NoRequire
    /\ pc' = "call"
    /\ UNCHANGED <<shared, fault, locals, extra, outcome, effects, next_block, history, clock>>

\* call: vm.commit_blockhash(number, get_block_by_number(number).header.header_hash())
CallBlockhash ==
    /\ pc = "call_commit"
    /\ require.kind = "Blockhash"
    /\ facts' = facts \cup
                {CommitBlockhash(require.number,
                                 HeaderHash(GetBlockByNumber(chain, require.number).header))}
    /\ require' = NoRequire
    /\ pc' = "call"
    /\ UNCHANGED <<shared, fault, locals, extra, outcome, effects, next_block, history, clock>>

\* TransitEffect with a failed effect skipped and the loop going on
TransitEffect_Swallow ==
    /\ pc = "transit"
    /\ effects # <<>>
    /\ \E order \in Orders(EffectKeys(Head(effects))) :
         LET r == ApplyEffect(database, hashRaw, state, Head(effects), order)
         IN  /\ database' = r.db
             /\ hashRaw' = r.raw
             /\ state' = r.root
             /\ fault' = r.fault
             /\ pc' = "transit"
    /\ effects' = Tail(effects)
    /\ UNCHANGED <<chain, pending, current_block, transactions, receipts, facts, require,
                   extra, outcome, next_block, history, clock>>

\* transit: one effect of vm.accounts() is applied, or panics
TransitEffect ==
    /\ pc = "transit"
    /\ effects # <<>>
    /\ \E order \in Orders(EffectKeys(Head(effects))) :
         LET r == ApplyEffect(database, hashRaw, state, Head(effects), order)
         IN  /\ database' = r.db
             /\ hashRaw' = r.raw
             /\ state' = r.root
             /\ fault' = r.fault
             /\ pc' = IF r.fault = "none" THEN "transit" ELSE "panic"
    /\ effects' = Tail(effects)
    /\ UNCHANGED <<chain, pending, current_block, transactions, receipts, facts, require,
                   extra, outcome, next_block, history, clock>>

\* TransitReceipt with the receipt put at the front of the list
TransitReceipt_Prepend ==
    /\ pc = "transit"
    /\ effects = <<>>
    /\ receipts' = <<MakeReceipt(outcome, state)>> \o receipts
    /\ outcomes' = Append(outcomes, outcome)
    /\ pc' = "for"
    /\ UNCHANGED <<shared, fault, current_block, transactions, state, vmvars, next_block,
                   appended, drained, cycles, clock>>

\* transit returns the receipt, and mine_loop pushes it
TransitReceipt ==
    /\ pc = "transit"
    /\ effects = <<>>
    /\ receipts' = Append(receipts, MakeReceipt(outcome, state))
    /\ outcomes' = Append(outcomes, outcome)
    /\ pc' = "for"
    /\ UNCHANGED <<shared, fault, current_block, transactions, state, vmvars, next_block,
                   appended, drained, cycles, clock>>

\* next(...)
Next_ ==
    /\ pc = "next"
    /\ \E debug_assertions \in BOOLEAN :
         LET r == NextCall(debug_assertions, current_block, transactions, receipts,
                           DefaultAddress, BlockGasLimit, state, hashRaw, CurrentTimestamp)
         IN  /\ next_block' = r.block
             /\ hashRaw' = r.raw
             /\ fault' = r.fault
             /\ pc' = IF r.fault = "none" THEN "append" ELSE "panic"
    /\ UNCHANGED <<chain, pending, database, locals, vmvars, history, clock>>

\* state::append_block(next_block)
AppendBlock ==
    /\ pc = "append"
    /\ chain' = StateAppendBlock(chain, next_block)
    /\ cycles' = Append(cycles, [parent |-> current_block, transactions |-> transactions,
                                 receipts |-> receipts, outcomes |-> outcomes])
    /\ pc' = "sleep"
    /\ UNCHANGED <<pending, hashRaw, database, fault, locals, vmvars, next_block,
                   appended, drained, outcomes, clock>>

\* thread::sleep
Sleep ==
    /\ pc = "sleep"
    /\ pc' = "head"
    /\ clock' = clock + SleepSeconds
    /\ UNCHANGED <<shared, fault, locals, vmvars, next_block, history>>

Next ==
    \/ AppendPendingTransaction
    \/ Genesis
    \/ ReadHead
    \/ Drain
    \/ ForTransaction
    \/ ForDone
    \/ ToValidOk
    \/ ToValidInvalid
    \/ ToValidRequire
    \/ ToValidCommit
    \/ ToValidBlockhash
    \/ CallOk
    \/ CallRequire
    \/ CallCommit
    \/ CallBlockhash
    \/ TransitEffect
    \/ TransitReceipt
    \/ Next_
    \/ AppendBlock
    \/ Sleep

Spec == Init /\ [][Next]_vars

(***************************************************************************)
(* next called alone, on any two lists.                                    *)
(***************************************************************************)
\* the sequences over a set up to a length
SeqsUpTo(set, n) == UNION {[1 .. k -> set] : k \in 0 .. n}

\* receipts to hand to next
ReceiptSet ==
    {MakeReceipt(Outcome(<<>>, <<>>, 1), TrieRoot(EmptyTrie)),
     MakeReceipt(Outcome(<<>>, <<Log(Miner, <<"t1">>)>>, 2), TrieRoot(EmptyTrie))}

\* the arguments of a call of next: a parent block, any list of transactions
\* and any list of receipts
NextInit ==
    /\ chain = <<GenesisBlock(TrieRoot(EmptyTrie), 0)>>
    /\ pending = <<>>
    /\ hashRaw = <<>>
    /\ database = EmptyDatabase
    /\ pc = "next"
    /\ fault = "none"
    /\ current_block = StateCurrentBlock(chain)
    /\ transactions \in SeqsUpTo(TxSet, MaxNextLen)
    /\ state = TrieRoot(EmptyTrie)
    /\ receipts \in SeqsUpTo(ReceiptSet, MaxNextLen)
    /\ facts = {}
    /\ require = NoRequire
    /\ extra = 0
    /\ outcome = NoOutcome
    /\ effects = <<>>
    /\ next_block = NoBlock
    /\ appended = <<>>
    /\ drained = <<>>
    /\ outcomes = <<>>
    /\ cycles = <<>>
    /\ clock = 0

\* the call returns a block, or panics
NextApply ==
    /\ pc = "next"
    /\ \E debug_assertions \in BOOLEAN :
         LET r == NextCall(debug_assertions, current_block, transactions, receipts,
                           DefaultAddress, BlockGasLimit, state, hashRaw, CurrentTimestamp)
         IN  /\ next_block' = r.block
             /\ hashRaw' = r.raw
             /\ fault' = r.fault
             /\ pc' = IF r.fault = "none" THEN "returned" ELSE "panic"
    /\ UNCHANGED <<chain, pending, database, locals, vmvars, history, clock>>

NextSpec == NextInit /\ [][NextApply]_vars

\* the steps of the thread that runs mine_loop
MineLoop ==
    \/ Genesis \/ ReadHead \/ Drain \/ ForTransaction \/ ForDone
    \/ ToValidOk \/ ToValidInvalid \/ ToValidRequire \/ ToValidCommit \/ ToValidBlockhash
    \/ CallOk \/ CallRequire \/ CallCommit \/ CallBlockhash
    \/ TransitEffect \/ TransitReceipt \/ Next_ \/ AppendBlock \/ Sleep

\* the thread of mine_loop keeps running, and every VM operation returns
FairSpec == Spec /\ WF_vars(MineLoop)

(***************************************************************************)
(* Properties.                                                             *)
(***************************************************************************)
\* the positions of mine_loop inside a production cycle, after the drain
InCycle ==
    pc \in {"for", "to_valid", "to_valid_commit", "call", "call_commit", "transit",
            "next", "append"}

\* the ledger contents behind a root
Ledger(root) == DbOpen(database.state, root)

RECURSIVE Flatten(_)
Flatten(batches) ==
    IF batches = <<>> THEN <<>> ELSE Head(batches) \o Flatten(Tail(batches))

\* validity conversion of the transaction at hand fails
ValidationFails ==
    /\ pc = "to_valid"
    /\ [kind |-> "Invalid"] \in FromTransaction(transaction, facts, extra)

\* C1: when validity conversion of a drained transaction fails, the
\* transaction is rejected (no receipt, ledger unchanged, not in the block)
\* and the cycle goes on with the remaining transactions.
C1_InvalidTransactionRejected ==
    [][(ValidationFails /\ pc' \notin {"to_valid", "to_valid_commit"})
         => /\ pc' = "for"
            /\ receipts' = receipts
            /\ state' = state
            /\ database' = database
            /\ Len(transactions') = Len(transactions) - 1]_vars

\* C2: every appended transaction is returned by exactly one drain or is
\* still queued for the next one, in arrival order: the drains' results,
\* followed by the queue, are the appends; a cycle works on what its drain
\* returned.
C2_EveryAppendedDrainedOnce ==
    /\ Flatten(drained) \o pending = appended
    /\ InCycle => transactions = drained[Len(drained)]

\* a second drain returned a transaction appended after the first drain
C2_Witness ==
    /\ Len(drained) = 2
    /\ drained[1] # <<>>
    /\ drained[2] # <<>>
    /\ pending = <<>>

\* C3: the chain is numbered 0, 1, ..., n without gap or duplicate; block k
\* has the number of block k-1 plus one and the header hash of block k-1 as
\* parent_hash, block k-1 being the head its cycle read; during a cycle no
\* other block is published.
C3_ChainLinked ==
    /\ \A k \in 1 .. Len(chain) : chain[k].header.number = k - 1
    /\ \A k \in 2 .. Len(chain) :
         /\ chain[k].header.number = chain[k - 1].header.number + 1
         /\ chain[k].header.parent_hash = HeaderHash(chain[k - 1].header)
         /\ cycles[k].parent = chain[k - 1]
    /\ Len(cycles) = Len(chain)
    /\ (pc = "drain" \/ InCycle) =>
         /\ current_block = chain[Len(chain)]
         /\ Len(drained) = Len(chain) - (IF pc = "drain" THEN 1 ELSE 0)

\* two blocks were produced on top of genesis
C3_Witness ==
    /\ Len(chain) = 3
    /\ chain[3].header.number = 2
    /\ chain[3].transactions # <<>>

\* C4: block production is time-driven.  Unless the loop ends on a fault,
\* every cycle that drained publishes exactly one block, also a cycle that
\* drained nothing; the block of an empty cycle has no transactions, zero
\* gas_used, the empty filter and its parent's state_root.
C4_TimeDriven ==
    /\ [](/\ pc \in {"sleep", "head"} => Len(chain) = Len(drained) + 1
          /\ InCycle => Len(chain) = Len(drained)
          /\ \A k \in 2 .. Len(chain) :
               cycles[k].transactions = <<>> =>
                 /\ chain[k].transactions = <<>>
                 /\ chain[k].header.gas_used = 0
                 /\ chain[k].header.logs_bloom = BloomEmpty
                 /\ chain[k].header.state_root = chain[k - 1].header.state_root)
    /\ (pc = "drain") ~> (pc = "panic" \/ pc = "sleep")

\* a cycle that drained nothing has published its block
C4_Witness ==
    /\ pc = "sleep"
    /\ Len(chain) = 3
    /\ cycles[3].transactions = <<>>
    /\ chain[3].transactions = <<>>

\* the keys in ascending order
RECURSIVE Ascending(_)
Ascending(keys) ==
    IF keys = {} THEN <<>>
    ELSE LET least == CHOOSE k \in keys : \A j \in keys : k <= j
         IN  <<least>> \o Ascending(keys \ {least})

\* the effects applied one after the other, storage maps in ascending order
RECURSIVE ReplayEffects(_, _, _, _)
ReplayEffects(db, raw, root, effs) ==
    IF effs = <<>> THEN [db |-> db, raw |-> raw, root |-> root]
    ELSE LET r == ApplyEffect(db, raw, root, Head(effs), Ascending(EffectKeys(Head(effs))))
         IN  ReplayEffects(r.db, r.raw, r.root, Tail(effs))

\* the ledger root after the first n executions of a cycle, from `base`
RECURSIVE RootAfter(_, _, _)
RootAfter(base, outs, n) ==
    IF n = 0 THEN base
    ELSE ReplayEffects(database, hashRaw, RootAfter(base, outs, n - 1), outs[n].accounts).root

\* a committed account fact is what the ledger behind `root` holds
FactFrom(c, root) ==
    CASE c.kind = "Nonexist" -> c.address \notin DOMAIN Ledger(root)
      [] c.kind = "Full" ->
           /\ c.address \in DOMAIN Ledger(root)
           /\ c.nonce = Ledger(root)[c.address].nonce
           /\ c.balance = Ledger(root)[c.address].balance
      [] OTHER -> TRUE

\* C5: within a cycle the transactions are validated, executed and applied
\* one after the other on the snapshot opened at the head's state_root:
\* transaction i+1 is validated and executed against the ledger holding the
\* effects of transactions 0..i, receipts[i].state_root is the root after
\* transactions 0..=i, and the header's state_root is the root after the
\* last one (the last receipt's state_root).
C5_SequentialCumulative ==
    /\ InCycle =>
         LET base == current_block.header.state_root
         IN  /\ \A i \in 1 .. Len(receipts) :
                   receipts[i].state_root = RootAfter(base, outcomes, i)
             /\ pc # "transit" => state = RootAfter(base, outcomes, Len(receipts))
             /\ pc \in {"to_valid", "to_valid_commit", "call", "call_commit"} =>
                   \A c \in facts : FactFrom(c, RootAfter(base, outcomes, Len(receipts)))
    /\ \A k \in 2 .. Len(chain) :
         LET base == chain[k - 1].header.state_root
             n == Len(cycles[k].receipts)
         IN  /\ n = Len(chain[k].transactions)
             /\ \A i \in 1 .. n :
                   cycles[k].receipts[i].state_root = RootAfter(base, cycles[k].outcomes, i)
             /\ chain[k].header.state_root = RootAfter(base, cycles[k].outcomes, n)
             /\ n > 0 => chain[k].header.state_root = cycles[k].receipts[n].state_root

\* a block holds a transfer to a fresh account followed by a transfer that
\* spends what the first one brought
C5_Witness ==
    /\ Len(chain) >= 2
    /\ chain[2].transactions =
         <<Tx(Miner, "B", 1, 0, "transfer"), Tx("B", Miner, 1, 0, "transfer")>>
    /\ cycles[2].receipts[1].state_root # cycles[2].receipts[2].state_root

\* the elements of a sequence
Range(seq) == {seq[i] : i \in 1 .. Len(seq)}

\* the filter with exactly the bits of the logs' addresses and topics
BloomOfLogs(logs) ==
    UNION {BloomBits(l.address) \cup UNION {BloomBits(t) : t \in Range(l.topics)} :
             l \in Range(logs)}

\* C6: a published header's logs_bloom is exactly the OR of the logs_bloom
\* of the block's receipts (empty for an empty block), and a receipt's
\* logs_bloom has exactly the bits of the address and the topics of each log
\* of its execution.
C6_LogsBloom ==
    /\ \A k \in 1 .. Len(chain) :
         /\ chain[k].header.logs_bloom =
              UNION {r.logs_bloom : r \in Range(cycles[k].receipts)}
         /\ \A i \in 1 .. Len(cycles[k].receipts) :
              /\ cycles[k].receipts[i].logs = cycles[k].outcomes[i].logs
              /\ cycles[k].receipts[i].logs_bloom = BloomOfLogs(cycles[k].outcomes[i].logs)
    /\ InCycle =>
         \A i \in 1 .. Len(receipts) : receipts[i].logs_bloom = BloomOfLogs(outcomes[i].logs)

\* a published block has a receipt with logs and a receipt without
C6_Witness ==
    \E k \in 2 .. Len(chain) :
        /\ Len(cycles[k].receipts) = 2
        /\ cycles[k].receipts[1].logs # <<>>
        /\ cycles[k].receipts[2].logs = <<>>
        /\ chain[k].header.logs_bloom = {0, 1, 2, 3, 4}

\* the sum of the balances of a ledger
RECURSIVE TotalBalance(_)
TotalBalance(items) ==
    IF DOMAIN items = {} THEN 0
    ELSE LET a == CHOOSE x \in DOMAIN items : TRUE
         IN  items[a].balance + TotalBalance(TrieRemove(items, a))

\* C7: a block of valid pure value transfers conserves the sum of the
\* balances of the ledger, and so does each of its transfers; no balance
\* leaves the word.
C7_ValueConserved ==
    /\ \A k \in 2 .. Len(chain) :
         (\A t \in Range(chain[k].transactions) : t.data = "transfer") =>
           /\ TotalBalance(Ledger(chain[k].header.state_root))
                = TotalBalance(Ledger(chain[k - 1].header.state_root))
           /\ \A r \in Range(cycles[k].receipts) :
                /\ TotalBalance(Ledger(r.state_root))
                     = TotalBalance(Ledger(chain[k - 1].header.state_root))
                /\ \A a \in DOMAIN Ledger(r.state_root) :
                     Ledger(r.state_root)[a].balance \in 0 .. Modulus - 1
    /\ InCycle =>
         \A i \in 1 .. Len(receipts) :
           (\A j \in 1 .. i : transactions[j].data = "transfer") =>
             TotalBalance(Ledger(receipts[i].state_root))
               = TotalBalance(Ledger(current_block.header.state_root))

\* a block of two transfers was published, one applied by a decrease and an
\* increase of a balance
C7_Witness ==
    \E k \in 2 .. Len(chain) :
        /\ Len(chain[k].transactions) = 2
        /\ \A t \in Range(chain[k].transactions) : t.data = "transfer"
        /\ \E o \in Range(cycles[k].outcomes) :
             /\ \E e \in Range(o.accounts) : e.kind = "DecreaseBalance"
             /\ \E e \in Range(o.accounts) : e.kind = "IncreaseBalance"

\* the addresses the effects of an execution name
Named(o) == {e.address : e \in Range(o.accounts)}

\* the transaction that ended with receipt i changed no account it did not name
FrameOf(base, recs, outs, i) ==
    LET before == Ledger(IF i = 1 THEN base ELSE recs[i - 1].state_root)
        after == Ledger(recs[i].state_root)
    IN  \A a \in (DOMAIN before \cap DOMAIN after) \ Named(outs[i]) : after[a] = before[a]

\* C8: applying a transaction changes only the accounts its effects name:
\* an account present before and after and named by no effect keeps its
\* nonce, balance, storage_root and code_hash; validity conversion and the
\* resolution loops write nothing.
C8_Frame ==
    /\ [](/\ \A k \in 2 .. Len(chain) :
               \A i \in 1 .. Len(cycles[k].receipts) :
                 FrameOf(chain[k - 1].header.state_root, cycles[k].receipts,
                         cycles[k].outcomes, i)
          /\ InCycle =>
               \A i \in 1 .. Len(receipts) :
                 FrameOf(current_block.header.state_root, receipts, outcomes, i))
    /\ [][(pc \in {"to_valid", "to_valid_commit", "call", "call_commit"}) =>
            (state' = state /\ database' = database /\ hashRaw' = hashRaw)]_vars

\* a transaction was applied that names the sender only, beside an account
\* it leaves alone
C8_Witness ==
    /\ InCycle
    /\ \E i \in 1 .. Len(receipts) :
         /\ "B" \notin Named(outcomes[i])
         /\ "B" \in DOMAIN Ledger(receipts[i].state_root)
         /\ receipts[i].state_root #
              (IF i = 1 THEN current_block.header.state_root ELSE receipts[i - 1].state_root)

\* the receipts of the executions `outs` applied from `base`
CanonReceipts(base, outs) ==
    [i \in 1 .. Len(outs) |-> MakeReceipt(outs[i], RootAfter(base, outs, i))]

\* the root of the trie that maps the encoded index of each item to its encoding
IndexedRoot(seq) ==
    TrieRoot([key \in {Rlp(i) : i \in 0 .. Len(seq) - 1} |-> Rlp(seq[key[2] + 1])])

\* C9: determinism.  The state_root, transactions_root and receipts_root of
\* a published block, and its receipts, are a function of the parent's
\* state_root, the ordered transactions and what the VM reported for them:
\* they are what applying the effects with storage maps in ascending key
\* order gives, whatever the timestamps and iteration orders of the run.
C9_Deterministic ==
    \A k \in 2 .. Len(chain) :
        LET base == chain[k - 1].header.state_root
            outs == cycles[k].outcomes
        IN  /\ cycles[k].receipts = CanonReceipts(base, outs)
            /\ chain[k].header.state_root = RootAfter(base, outs, Len(outs))
            /\ chain[k].header.transactions_root = IndexedRoot(chain[k].transactions)
            /\ chain[k].header.receipts_root = IndexedRoot(CanonReceipts(base, outs))

\* a block was published, with a later timestamp than its parent's, whose
\* execution changed two storage keys of an account
C9_Witness ==
    \E k \in 2 .. Len(chain) :
        /\ chain[k].header.timestamp > chain[k - 1].header.timestamp
        /\ \E o \in Range(cycles[k].outcomes) : \E e \in Range(o.accounts) :
             e.kind = "Full" /\ Cardinality(DOMAIN e.changing_storage) = 2

\* the roots of the blocks published so far
PublishedRoots == {chain[k].header.state_root : k \in 1 .. Len(chain)}

\* an effect that removes an account is being applied
Destroying ==
    /\ pc = "transit"
    /\ effects # <<>>
    /\ Head(effects).kind = "Create"
    /\ ~Head(effects).exists

\* C10: snapshot isolation.  Once a create-or-destroy effect with exists =
\* false is applied, the working ledger no longer holds the address, while
\* the ledger behind the parent's state_root still holds what it held; no
\* step changes what is read through the state_root of a published block,
\* and what is read through it hashes to it.
C10_SnapshotIsolation ==
    /\ [](\A r \in PublishedRoots :
            r \in DOMAIN database.state /\ TrieRoot(Ledger(r)) = r)
    /\ [][\A r \in PublishedRoots :
            /\ r \in DOMAIN database'.state
            /\ DbOpen(database'.state, r) = DbOpen(database.state, r)]_vars
    /\ [][(Destroying /\ effects' = Tail(effects)) =>
            /\ Head(effects).address \notin DOMAIN DbOpen(database'.state, state')
            /\ DOMAIN DbOpen(database'.state, current_block.header.state_root)
                 = DOMAIN Ledger(current_block.header.state_root)]_vars

\* an account of the parent's ledger was removed from the working ledger
C10_Witness ==
    /\ pc = "transit"
    /\ effects = <<>>
    /\ \E e \in Range(outcome.accounts) :
         /\ e.kind = "Create"
         /\ ~e.exists
         /\ e.address \in DOMAIN Ledger(current_block.header.state_root)
         /\ e.address \notin DOMAIN Ledger(state)

\* the ledger genesis builds: the node's own account and nothing else
GenesisLedger ==
    (Miner :> Account(0, GenesisBalance, TrieRoot(EmptyTrie), Keccak256(EmptyCode)))

\* C11: genesis runs exactly once, before any production cycle.  After it
\* the first block of the chain has number 0, no transactions, the
\* empty-trie root as transactions_root and receipts_root, and as state_root
\* the root of the ledger that holds the node's own account only (nonce 0,
\* the starting balance, the empty storage root, the empty-code hash); the
\* raw-bytes namespace maps the empty-code hash to the empty byte string; no
\* cycle starts before it, it never runs again, and no other block has
\* number 0.
C11_GenesisOnce ==
    /\ []((pc = "genesis") <=> (chain = <<>>))
    /\ [](pc = "genesis" => (drained = <<>> /\ receipts = <<>> /\ cycles = <<>>))
    /\ [](chain # <<>> =>
            /\ chain[1].header.number = 0
            /\ chain[1].transactions = <<>>
            /\ chain[1].header.transactions_root = TrieRoot(EmptyTrie)
            /\ chain[1].header.receipts_root = TrieRoot(EmptyTrie)
            /\ chain[1].header.state_root = TrieRoot(GenesisLedger)
            /\ Ledger(chain[1].header.state_root) = GenesisLedger
            /\ Keccak256(EmptyCode) \in DOMAIN hashRaw
            /\ GetHashRaw(hashRaw, Keccak256(EmptyCode)) = EmptyCode
            /\ \A k \in 2 .. Len(chain) : chain[k].header.number # 0)
    /\ [][chain # <<>> => (pc' # "genesis" /\ chain'[1] = chain[1])]_vars

\* two production cycles have published on top of the genesis block
C11_Witness ==
    /\ Len(chain) = 3
    /\ chain[1].header.number = 0
    /\ Ledger(chain[1].header.state_root) = GenesisLedger
    /\ chain[3].header.state_root # chain[1].header.state_root

\* the faults the design calls fatal
FatalFaults == {"blockhash_in_validation", "code_hash", "missing_account"}

\* what is read through the published state roots and the raw-bytes
\* namespace is the same after the step
PublishedKept ==
    /\ \A r \in PublishedRoots :
         /\ r \in DOMAIN database'.state
         /\ DbOpen(database'.state, r) = DbOpen(database.state, r)
    /\ \A h \in DOMAIN hashRaw :
         /\ h \in DOMAIN hashRaw'
         /\ GetHashRaw(hashRaw', h) = GetHashRaw(hashRaw, h)

\* C12: a fault raised while a cycle validates, executes or applies a
\* transaction ends block production.  The loop stands at the fault for ever:
\* no block is published for the cycle or later, the head of the chain is the
\* block the cycle read at its start, and what is read through the state_root
\* of every published block is what it was; the ledger the cycle had partly
\* written is behind no published root.
C12_FatalFaultStops ==
    /\ []((fault # "none") <=> (pc = "panic"))
    /\ [](pc = "panic" =>
            /\ Len(chain) = Len(drained)
            /\ current_block = StateCurrentBlock(chain)
            /\ state # current_block.header.state_root => state \notin PublishedRoots)
    /\ [][(pc' = "panic") => (chain' = chain /\ PublishedKept)]_vars
    /\ [][(pc = "panic") =>
            (pc' = "panic" /\ fault' = fault /\ database' = database /\ state' = state)]_vars
    /\ [][(InCycle /\ pc # "append") => (chain' = chain /\ PublishedKept)]_vars

\* the code-hash check failed after an effect of the transaction was applied
C12_Witness ==
    /\ pc = "panic"
    /\ fault = "code_hash"
    /\ fault \in FatalFaults
    /\ state # current_block.header.state_root
    /\ Len(chain) = 2

\* C13: next returns no block for a transaction list and a receipt list of
\* different lengths, whichever is the longer.
C13_MismatchRejected ==
    (Len(transactions) # Len(receipts)) => (pc # "returned")

\* the positions of the two resolution loops
InToValid == pc \in {"to_valid", "to_valid_commit"}
InCall == pc \in {"call", "call_commit"}

\* the code bytes the raw-bytes namespace holds for an account of the
\* working ledger
CodeOf(a) == GetHashRaw(hashRaw, Ledger(state)[a].code_hash)

\* the value of a key in the storage trie of an account of the working
\* ledger, zero for a key the trie does not hold
StorageOf(a, key) ==
    LET storage == DbOpen(database.storage, Ledger(state)[a].storage_root)
    IN  IF key \in DOMAIN storage THEN storage[key] ELSE 0

\* a commitment says what the working ledger holds
Truthful(c) ==
    CASE c.kind = "Nonexist" -> c.address \notin DOMAIN Ledger(state)
      [] c.kind = "Full" ->
           /\ c.address \in DOMAIN Ledger(state)
           /\ c.nonce = Ledger(state)[c.address].nonce
           /\ c.balance = Ledger(state)[c.address].balance
           /\ c.code = CodeOf(c.address)
      [] c.kind = "Code" ->
           /\ c.address \in DOMAIN Ledger(state)
           /\ c.code = CodeOf(c.address)
      [] c.kind = "Storage" ->
           /\ c.address \in DOMAIN Ledger(state)
           /\ c.value = StorageOf(c.address, c.index)
      [] OTHER -> TRUE

\* the commitment of the kind a requirement asks for
KindFor(req, c) ==
    /\ c.address = req.address
    /\ c.kind = (IF req.address \notin DOMAIN Ledger(state) THEN "Nonexist"
                 ELSE CASE req.kind = "Account" -> "Full"
                        [] req.kind = "AccountCode" -> "Code"
                        [] req.kind = "AccountStorage" -> "Storage")
    /\ c.kind = "Storage" => c.index = req.index

\* C14: in to_valid and in call an Account, AccountCode or AccountStorage
\* requirement for an address is answered from the working ledger: by
\* Nonexist exactly when the ledger does not hold the address, otherwise by
\* Full (nonce, balance, the code stored under code_hash), Code (that code)
\* or Storage (the value of the key in the trie at storage_root, zero for a
\* missing key); every fact committed in a loop is such an answer.
C14_ResolvedFromLedger ==
    /\ []((InToValid \/ InCall) => \A c \in facts : Truthful(c))
    /\ [][(pc \in {"to_valid_commit", "call_commit"} /\ require.kind # "Blockhash"
             /\ pc' # pc)
            => \E c \in facts' :
                 /\ facts' = facts \cup {c}
                 /\ KindFor(require, c)
                 /\ Truthful(c)]_vars

\* a storage requirement was answered with the value a contract had stored
C14_Witness ==
    /\ InCall
    /\ \E c \in facts : c.kind = "Storage" /\ c.value = 1
    /\ \E c \in facts : c.kind = "Full" /\ c.code = SomeCode

\* the step commits exactly one fact, which answers the pending requirement
CommitsAnswer ==
    /\ require # NoRequire
    /\ \E c \in facts' :
         /\ c \notin facts
         /\ facts' = facts \cup {c}
         /\ Answered({c}, require)
    /\ require' = NoRequire

\* C15: the resolution loops alternate request, commit, resume.  A pause
\* leaves a requirement the facts do not answer yet; the next step of the
\* loop commits exactly one fact, which answers that requirement, and the
\* operation is run again (in to_valid a block hash requirement ends the loop
\* instead); a fact is committed only at a pause; the loop is left only when
\* the operation reports a final result, after any number of round trips.
C15_RequestCommitResume ==
    /\ [](pc \in {"to_valid", "call"} => require = NoRequire)
    /\ [](pc \in {"to_valid_commit", "call_commit"} =>
            (require # NoRequire /\ ~Answered(facts, require)))
    /\ [][(facts' # facts) =>
            \/ pc \in {"to_valid_commit", "call_commit"} /\ CommitsAnswer
            \/ pc \in {"for", "to_valid"} /\ facts' = {}]_vars
    /\ [][(pc = "to_valid" /\ pc' # pc) =>
            \/ /\ pc' = "to_valid_commit"
               /\ [kind |-> "Require", require |-> require']
                    \in FromTransaction(transaction, facts, extra)
               /\ facts' = facts
            \/ /\ pc' = "call"
               /\ [kind |-> "Valid"] \in FromTransaction(transaction, facts, extra)
            \/ /\ pc' = "panic"
               /\ [kind |-> "Invalid"] \in FromTransaction(transaction, facts, extra)]_vars
    /\ [][(pc = "to_valid_commit" /\ pc' # pc) =>
            \/ pc' = "to_valid" /\ CommitsAnswer
            \/ pc' = "panic" /\ require.kind = "Blockhash" /\ facts' = facts]_vars
    /\ [][(pc = "call" /\ pc' # pc) =>
            \/ /\ pc' = "call_commit"
               /\ [kind |-> "Require", require |-> require']
                    \in Fire(transaction, facts, extra)
               /\ facts' = facts
            \/ /\ pc' = "transit"
               /\ [kind |-> "Ok", outcome |-> outcome'] \in Fire(transaction, facts, extra)]_vars
    /\ [][(pc = "call_commit" /\ pc' # pc) => (pc' = "call" /\ CommitsAnswer)]_vars

\* the execution loop runs the operation again after three round trips
C15_Witness ==
    /\ pc = "call"
    /\ require = NoRequire
    /\ Cardinality(facts) = 3
    /\ extra = 1

\* C16: a Blockhash(number) requirement is answered in call by committing
\* the header hash of the block the chain storage holds under that number,
\* and execution resumes; in to_valid it aborts the loop: nothing is
\* committed, no validated transaction is returned and the loop never runs
\* again.
C16_BlockhashByLoop ==
    /\ [][(pc = "call_commit" /\ require.kind = "Blockhash" /\ pc' # pc) =>
            /\ pc' = "call"
            /\ fault' = "none"
            /\ facts' = facts \cup
                 {[kind |-> "Blockhash", number |-> require.number,
                   hash |-> HeaderHash(chain[require.number + 1].header)]}]_vars
    /\ [][(pc = "to_valid_commit" /\ require.kind = "Blockhash" /\ pc' # pc) =>
            /\ pc' = "panic"
            /\ fault' = "blockhash_in_validation"
            /\ facts' = facts
            /\ receipts' = receipts]_vars
    /\ [](fault = "blockhash_in_validation" =>
            (pc = "panic" /\ \A c \in facts : c.kind # "Blockhash"))
    /\ [](InToValid => \A c \in facts : c.kind # "Blockhash")

\* execution resumed with the hash of an earlier block than the head committed
C16_Witness ==
    /\ pc = "call"
    /\ Len(chain) = 2
    /\ \E c \in facts :
         /\ c.kind = "Blockhash"
         /\ c.number = 0
         /\ c.hash = HeaderHash(chain[1].header)
         /\ c.hash # HeaderHash(current_block.header)

\* transit applies the effect at the head of the list in this step
Applying(kinds) ==
    /\ pc = "transit"
    /\ effects # <<>>
    /\ effects' = Tail(effects)
    /\ Head(effects).kind \in kinds

\* the working ledger after the step
LedgerAfter == DbOpen(database'.state, state')

\* the root the working ledger had before the transaction at hand
RootBefore ==
    IF receipts = <<>> THEN current_block.header.state_root
    ELSE receipts[Len(receipts)].state_root

\* C17: a balance increase or decrease for an address the ledger holds
\* changes the balance of that account by exactly the amount and nothing
\* else of the ledger (the step is a fault, and writes nothing, when the sum
\* or difference leaves the word); a balance increase, a balance decrease or
\* a full replacement for an address the ledger does not hold is a fault and
\* inserts no account.
C17_BalanceEffects ==
    /\ [][(Applying({"IncreaseBalance", "DecreaseBalance"})
             /\ Head(effects).address \in DOMAIN Ledger(state)) =>
            LET e == Head(effects)
                balance == Ledger(state)[e.address].balance
                changed == IF e.kind = "IncreaseBalance" THEN balance + e.value
                           ELSE balance - e.value
            IN  IF changed \in 0 .. Modulus - 1
                THEN /\ pc' = "transit"
                     /\ LedgerAfter = [Ledger(state) EXCEPT ![e.address].balance = changed]
                     /\ LedgerAfter[e.address].nonce = Ledger(state)[e.address].nonce
                     /\ LedgerAfter[e.address].storage_root
                          = Ledger(state)[e.address].storage_root
                     /\ LedgerAfter[e.address].code_hash = Ledger(state)[e.address].code_hash
                ELSE /\ pc' = "panic"
                     /\ fault' \in {"overflow", "underflow"}
                     /\ state' = state
                     /\ database' = database]_vars
    /\ [][(Applying({"IncreaseBalance", "DecreaseBalance", "Full"})
             /\ Head(effects).address \notin DOMAIN Ledger(state)) =>
            /\ pc' = "panic"
            /\ fault' = "missing_account"
            /\ state' = state
            /\ database' = database
            /\ Head(effects).address \notin DOMAIN LedgerAfter]_vars
    /\ [](fault = "missing_account" =>
            \E e \in Range(outcome.accounts) :
                /\ e.kind \in {"IncreaseBalance", "DecreaseBalance", "Full"}
                /\ e.address \notin DOMAIN Ledger(state))

\* a balance increase was applied to an account the ledger held
C17_Witness ==
    /\ pc = "transit"
    /\ effects = <<>>
    /\ fault = "none"
    /\ outcome.accounts # <<>>
    /\ LET e == outcome.accounts[Len(outcome.accounts)]
       IN  /\ e.kind = "IncreaseBalance"
           /\ e.value > 0
           /\ e.address \in DOMAIN Ledger(RootBefore)
           /\ Ledger(state)[e.address].balance
                = Ledger(RootBefore)[e.address].balance + e.value

\* the contents of a storage trie after the keys of a map were written
Overwritten(old, map) ==
    [k \in DOMAIN old \cup DOMAIN map |-> IF k \in DOMAIN map THEN map[k] ELSE old[k]]

\* C18: a full replacement for an account of the ledger sets nonce and
\* balance to the values given, sets storage_root to the root of the trie at
\* the old storage_root with the changed keys written, keeps code_hash and
\* changes no other account; when the hash of the code given is not the
\* account's code_hash the step is a fault and the ledger is left as it was.
C18_FullReplacement ==
    [][(Applying({"Full"}) /\ Head(effects).address \in DOMAIN Ledger(state)) =>
         LET e == Head(effects)
             old == Ledger(state)[e.address]
             storage == Overwritten(DbOpen(database.storage, old.storage_root),
                                    e.changing_storage)
         IN  IF Keccak256(e.code) = old.code_hash
             THEN /\ pc' = "transit"
                  /\ LedgerAfter =
                       [Ledger(state) EXCEPT ![e.address] =
                          [nonce |-> e.nonce, balance |-> e.balance,
                           storage_root |-> TrieRoot(storage),
                           code_hash |-> old.code_hash]]
                  /\ DbOpen(database'.storage, LedgerAfter[e.address].storage_root) = storage
             ELSE /\ pc' = "panic"
                  /\ fault' = "code_hash"
                  /\ state' = state
                  /\ database'.state = database.state
                  /\ LedgerAfter[e.address] = old]_vars

\* a full replacement wrote one key into a storage trie that held another
C18_Witness ==
    /\ pc = "transit"
    /\ fault = "none"
    /\ Len(effects) < Len(outcome.accounts)
    /\ LET e == outcome.accounts[Len(outcome.accounts) - Len(effects)]
       IN  /\ e.kind = "Full"
           /\ e.changing_storage = (2 :> 1)
           /\ e.address \in DOMAIN Ledger(state)
           /\ DbOpen(database.storage, Ledger(state)[e.address].storage_root)
                = (1 :> 1 @@ 2 :> 1)
           /\ Ledger(state)[e.address].code_hash = Keccak256(SomeCode)

\* the raw-bytes namespace holds, under a hash, bytes that hash to it
CodeStored(hash) ==
    /\ hash \in DOMAIN hashRaw
    /\ Keccak256(GetHashRaw(hashRaw, hash)) = hash

\* C19: in every ledger written since genesis (the working ledger and the
\* ledgers of all published blocks among them) every account has a code_hash
\* under which the raw-bytes namespace holds bytes with that content hash,
\* the empty string for an account without code; the code committed for an
\* account in a resolution loop is those bytes.
C19_CodeHashStored ==
    /\ \A root \in DOMAIN database.state :
         \A a \in DOMAIN Ledger(root) : CodeStored(Ledger(root)[a].code_hash)
    /\ state \in DOMAIN database.state
    /\ PublishedRoots \subseteq DOMAIN database.state
    /\ chain # <<>> => GetHashRaw(hashRaw, Keccak256(EmptyCode)) = EmptyCode
    /\ (InToValid \/ InCall) =>
         \A c \in facts :
           c.kind \in {"Full", "Code"} =>
             Keccak256(c.code) = Ledger(state)[c.address].code_hash

\* the code of a created contract was found when its account was resolved
C19_Witness ==
    /\ InToValid \/ InCall
    /\ \E c \in facts :
         /\ c.kind \in {"Full", "Code"}
         /\ c.code = SomeCode
         /\ Ledger(state)[c.address].code_hash = Keccak256(SomeCode)
    /\ \E a \in DOMAIN Ledger(state) : Ledger(state)[a].code_hash = Keccak256(EmptyCode)

\* receipt i of `recs` is the receipt of the execution of transaction i of
\* `txs`: the execution is that of the transaction's sender at the
\* transaction's nonce, and the receipt carries its gas and logs
ReceiptOf(txs, recs, outs, i) ==
    /\ outs[i].accounts # <<>>
    /\ outs[i].accounts[1].kind = "Full"
    /\ outs[i].accounts[1].address = txs[i].from
    /\ outs[i].accounts[1].nonce = txs[i].nonce + 1
    /\ recs[i].used_gas = outs[i].used_gas
    /\ recs[i].logs = outs[i].logs

\* the transactions of the blocks published after genesis, in chain order
PublishedTransactions ==
    Flatten([k \in 1 .. Len(chain) - 1 |-> chain[k + 1].transactions])

\* C20: the block of a production cycle carries exactly the transactions
\* the cycle's drain returned, all of them executed, in arrival order; the
\* receipts handed to next are as many, receipt i being the receipt of
\* transaction i, so the lengths are equal at every call of next and the
\* transaction trie and the receipt trie have the keys 0 .. n-1.
C20_IndexAligned ==
    /\ \A k \in 2 .. Len(chain) :
         LET txs == chain[k].transactions
             recs == cycles[k].receipts
         IN  /\ txs = drained[k - 1]
             /\ Len(recs) = Len(txs)
             /\ recs = CanonReceipts(chain[k - 1].header.state_root, cycles[k].outcomes)
             /\ \A i \in 1 .. Len(txs) : ReceiptOf(txs, recs, cycles[k].outcomes, i)
             /\ chain[k].header.transactions_root = IndexedRoot(txs)
             /\ chain[k].header.receipts_root = IndexedRoot(recs)
    /\ PublishedTransactions = SubSeq(appended, 1, Len(PublishedTransactions))
    /\ InCycle =>
         /\ Len(receipts) <= Len(transactions)
         /\ Len(outcomes) = Len(receipts)
         /\ \A i \in 1 .. Len(receipts) : ReceiptOf(transactions, receipts, outcomes, i)
    /\ pc \in {"next", "append"} =>
         /\ Len(transactions) = Len(receipts)
         /\ transactions = drained[Len(drained)]

\* a block of two different transactions with two different receipts
C20_Witness ==
    \E k \in 2 .. Len(chain) :
        /\ Len(chain[k].transactions) = 2
        /\ chain[k].transactions = SubSeq(appended, 1, 2)
        /\ chain[k].transactions[1] # chain[k].transactions[2]
        /\ cycles[k].receipts[1].used_gas # cycles[k].receipts[2].used_gas

====
